---------------------------- MODULE Spec2Model ----------------------------
(***************************************************************************)
(* A model of the inventory forecast service (src/ai-service):            *)
(*   forecaster.py    ForecasterEngine._preprocess_data, generate_forecast *)
(*   db_connector.py  DBConnector (connect with retry, fetch, bulk write)  *)
(*   app.py           run_batch_prediction                                 *)
(*                                                                         *)
(* Three specifications share the module:                                  *)
(*   SpecNormalize  _preprocess_data applied to bounded raw histories      *)
(*   SpecAnalyze    the depletion / trend / confidence analysis of         *)
(*                  generate_forecast applied to bounded forecasts         *)
(*   Spec           the process: DBConnector construction at import, then  *)
(*                  batch runs and direct calls of the store gateway       *)
(*                                                                         *)
(* Numbers.  Timestamps are integer ticks, TicksPerDay ticks to a calendar *)
(* day.  Point estimates (yhat) are integers counting 1/YUnit of a unit,   *)
(* so that fractional demand exists; quantities in stock and in the raw    *)
(* history are whole units.  Float rounding of the comparisons is not      *)
(* modelled: they are evaluated exactly.                                   *)
(***************************************************************************)
EXTENDS Integers, Sequences, FiniteSets, TLC

VARIABLES
    history,      \* SpecNormalize: the raw history handed to _preprocess_data
    normOut,      \* SpecNormalize: what _preprocess_data returned
    current_qty,  \* SpecAnalyze: generate_forecast's current_qty
    forecast,     \* SpecAnalyze: the shape of the model's 30 day forecast
    prediction,   \* SpecAnalyze: what the analysis returned
    instance,     \* DBConnector._instance is set
    dbConn,       \* self.db is set (the ping succeeded)
    connLog,      \* the outcomes of the connect attempts made so far
    boot,         \* where the import of db_connector stands
    obtained,     \* a DBConnector() call has returned the instance to its caller
    store,        \* the products collection
    reqLimit,     \* the batch size the caller of /predict/batch asked for
    pc,           \* where run_batch_prediction (or a direct gateway call) stands
    products,     \* run_batch_prediction: the fetched list
    idx,          \* run_batch_prediction: number of products the loop has done
    updates,      \* the update list (built by the run, or passed by a direct call)
    stats,        \* run_batch_prediction: the stats accumulator
    response,     \* what the handler returned
    fetchFault,   \* the aggregate call of the current run raised
    bulkCalls,    \* calls of bulk_update_predictions made by the current run
    bulk          \* the last bulk_update_predictions call: how it ended, what it wrote

normVars == <<history, normOut>>
anaVars  == <<current_qty, forecast, prediction>>
connVars == <<instance, dbConn, connLog, boot, obtained>>
runVars  == <<store, reqLimit, pc, products, idx, updates, stats, response,
              fetchFault, bulkCalls, bulk>>
vars     == <<normVars, anaVars, connVars, runVars>>

----------------------------------------------------------------------------
(* Bounds of the model *)

MaxRows == 3        \* rows of a raw history in SpecNormalize
TicksPerDay == 2    \* timestamps distinguished within one calendar day
YUnit == 3          \* a point estimate counts 1/YUnit of a unit
MaxY == 2           \* point estimates range over -MaxY..MaxY (in 1/YUnit)
MaxQty == 2         \* current_qty ranges over 0..MaxQty in SpecAnalyze
MaxProducts == 3    \* product records in the store

(* Program constants *)

MinPoints == 10     \* forecaster.py:45  len(df) < 10
Horizon == 30       \* forecaster.py:68  periods=30, tail(30)
TrendWindow == 5    \* forecaster.py:92  head(5), tail(5)
Retries == 3        \* db_connector.py:35 retries=3
FetchLimit == 2000  \* app.py:34 limit=2000

----------------------------------------------------------------------------
(* Helpers *)

RECURSIVE SumSeq(_)
SumSeq(s) == IF s = <<>> THEN 0 ELSE Head(s) + SumSeq(Tail(s))

Max2(a, b) == IF a >= b THEN a ELSE b
Min2(a, b) == IF a <= b THEN a ELSE b

SetMin(S) == CHOOSE x \in S : \A y \in S : x <= y
SetMax(S) == CHOOSE x \in S : \A y \in S : x >= y

RECURSIVE SortedSeq(_)
SortedSeq(S) == IF S = {} THEN <<>>
                ELSE <<SetMin(S)>> \o SortedSeq(S \ {SetMin(S)})

----------------------------------------------------------------------------
(* forecaster.py: ForecasterEngine._preprocess_data                         *)
(*                                                                          *)
(* A raw row is a record                                                    *)
(*   dcol   the key that carries the date, or "absent"                      *)
(*   dkind  "ok" (parses), "null" (None/NaN) or "bad" (does not parse)      *)
(*   ts     the timestamp in ticks when dkind = "ok"                        *)
(*   ycol   the key that carries the quantity, or "absent"                  *)
(*   ynum   the quantity is numeric (or a numeric string)                   *)
(*   yv     its value when ynum                                             *)

Rejected == [ok |-> FALSE, rows |-> <<>>]

\* line 28: col_map
col_map(c) ==
    CASE c \in {"date", "createdAt"} -> "ds"
      [] c \in {"sales", "quantity_sold"} -> "y"
      [] OTHER -> c

\* lines 24, 29: the source keys that end up as column `name` of the frame
ColumnsNamed(h, name) ==
    {c \in {h[i].dcol : i \in DOMAIN h} \cup {h[i].ycol : i \in DOMAIN h} :
        c # "absent" /\ col_map(c) = name}

\* line 32: pd.to_datetime raises on a value it cannot parse
ToDatetimeRaises(h) ==
    \E i \in DOMAIN h : h[i].dcol # "absent" /\ h[i].dkind = "bad"

\* lines 32-33: the typed frame; a row without the key holds NaN: NaT as a
\* date, 0 as a quantity (to_numeric(errors='coerce').fillna(0))
TypedRow(r) ==
    [nat |-> (r.dcol = "absent" \/ r.dkind # "ok"),
     ds  |-> IF r.dcol = "absent" \/ r.dkind # "ok" THEN 0 ELSE r.ts,
     y   |-> IF r.ycol = "absent" \/ ~r.ynum THEN 0 ELSE r.yv]

TypedFrame(h) == [i \in DOMAIN h |-> TypedRow(h[i])]

\* line 36: dropna(subset=['ds', 'y'])
IsDated(row) == ~row.nat
DropNa(df) == SelectSeq(df, IsDated)

RECURSIVE SumWhere(_, _, _)
\* the sum of y over the rows of df whose key (ds, or its day) is k
SumWhere(df, k, perDay) ==
    IF df = <<>> THEN 0
    ELSE (IF (IF perDay THEN Head(df).ds \div TicksPerDay ELSE Head(df).ds) = k
          THEN Head(df).y ELSE 0) + SumWhere(Tail(df), k, perDay)

\* line 39: groupby('ds').sum().reset_index(): one row per timestamp, ascending
GroupBySum(df) ==
    LET keys == SortedSeq({df[i].ds : i \in DOMAIN df})
    IN  [i \in DOMAIN keys |-> [nat |-> FALSE, ds |-> keys[i],
                                y |-> SumWhere(df, keys[i], FALSE)]]

\* lines 42-43: resample('D').sum().fillna(0): one row per calendar day from
\* the first to the last day present; ds is now a day number
ResampleDaily(df) ==
    IF df = <<>> THEN <<>>
    ELSE LET first == df[1].ds \div TicksPerDay
             last  == df[Len(df)].ds \div TicksPerDay
         IN  [i \in 1..(last - first + 1) |->
                 [ds |-> first + i - 1, y |-> SumWhere(df, first + i - 1, TRUE)]]

\* a bug: the threshold off by one, len(df) < 9
TooShortOffByOne(df) == Len(df) < MinPoints - 1

\* line 45: the minimum number of data points
TooShort(df) == Len(df) < MinPoints

\* lines 19-52
preprocess_data(h) ==
    IF Cardinality(ColumnsNamed(h, "ds")) # 1 THEN Rejected      \* KeyError / not a Series
    ELSE IF ToDatetimeRaises(h) THEN Rejected                   \* line 32 raises
    ELSE IF Cardinality(ColumnsNamed(h, "y")) # 1 THEN Rejected  \* KeyError / not a Series
    ELSE LET df == ResampleDaily(GroupBySum(DropNa(TypedFrame(h))))
         IN  IF TooShort(df) THEN Rejected ELSE [ok |-> TRUE, rows |-> df]

----------------------------------------------------------------------------
(* The raw rows SpecNormalize draws from *)

Tick(day, tod) == day * TicksPerDay + tod

RawRow(dcol, dkind, ts, ycol, ynum, yv) ==
    [dcol |-> dcol, dkind |-> dkind, ts |-> ts, ycol |-> ycol, ynum |-> ynum, yv |-> yv]

DateOpts ==
    {<<"date", "ok", Tick(d, 0)>> : d \in {0, 1, MinPoints - 1, MinPoints}}
    \cup {<<"date", "ok", Tick(0, TicksPerDay - 1)>>,
          <<"date", "null", 0>>, <<"date", "bad", 0>>,
          <<"createdAt", "ok", Tick(MinPoints - 1, 0)>>,
          <<"absent", "null", 0>>}

RowOpts ==
    {RawRow(d[1], d[2], d[3], "sales", TRUE, q) : d \in DateOpts, q \in {1, 2}}
    \cup {RawRow("date", "ok", Tick(MinPoints - 1, 0), "sales", FALSE, 0),
          RawRow("createdAt", "ok", Tick(0, 0), "quantity_sold", TRUE, 2),
          RawRow("createdAt", "ok", Tick(MinPoints, 0), "quantity_sold", TRUE, 1),
          RawRow("date", "ok", Tick(1, 0), "absent", FALSE, 0)}

----------------------------------------------------------------------------
(* forecaster.py: ForecasterEngine.generate_forecast                        *)
(*                                                                          *)
(* The forecasting model (Prophet) is external.  What it returns for one    *)
(* series is a record: raises (fit or predict raised) and, otherwise, the   *)
(* shape of its last 30 rows: yhat is d1 on day 1, head on days 2..5, mid   *)
(* on days 6..25 and tail on days 26..30 (in 1/YUnit), and                  *)
(* yhat_upper - yhat_lower is spread on every day.                          *)

NoDate == <<>>      \* Python's None for stock_out_date; a date is <<day>>

YhatAt(fc, i) ==
    IF i = 1 THEN fc.d1
    ELSE IF i <= TrendWindow THEN fc.head
    ELSE IF i <= Horizon - TrendWindow THEN fc.mid
    ELSE fc.tail

\* lines 68-73: future_data = forecast.tail(30), the days after the series' last
FutureData(fc, lastDay) ==
    [i \in 1..Horizon |->
        [ds |-> lastDay + i, yhat |-> YhatAt(fc, i),
         yhat_lower |-> YhatAt(fc, i), yhat_upper |-> YhatAt(fc, i) + fc.spread]]

\* a bug: the clamp forgotten, daily_sales = row['yhat']
DailySalesUnclamped(yhat) == yhat

\* lines 76, 83: clip(lower=0), max(0, yhat)
DailySales(yhat) == Max2(0, yhat)

\* line 76: future_data['yhat'].clip(lower=0).sum(), in 1/YUnit
PredictedDemand(fd) == SumSeq([i \in DOMAIN fd |-> DailySales(fd[i].yhat)])

\* line 110: int(predicted_demand) truncates
IntOf(x) == IF x >= 0 THEN x \div YUnit ELSE -((-x) \div YUnit)

\* line 86: the depletion test
Depleted(running_stock) == running_stock <= 0

RECURSIVE StockOutFrom(_, _, _)
\* lines 82-88: the loop from row i on, running_stock in 1/YUnit
StockOutFrom(fd, i, running_stock) ==
    IF i > Len(fd) THEN NoDate
    ELSE LET left == running_stock - DailySales(fd[i].yhat)
         IN  IF Depleted(left) THEN <<fd[i].ds>>
             ELSE StockOutFrom(fd, i + 1, left)

\* a bug: running_stock starts at 0 instead of current_qty
StockOutDateFromZero(qty, fd) == StockOutFrom(fd, 1, 0)

\* lines 79-88
StockOutDate(qty, fd) == StockOutFrom(fd, 1, qty * YUnit)

\* lines 92-93: the sums behind head(5).mean() and tail(5).mean()
StartSales(fd) == SumSeq([i \in 1..TrendWindow |-> fd[i].yhat])
EndSales(fd) == SumSeq([i \in 1..TrendWindow |-> fd[Len(fd) - TrendWindow + i].yhat])

\* lines 95-100, on the two sums: end > start * 1.1, end < start * 0.9
TrendOf(start_sales, end_sales) ==
    IF 10 * end_sales > 11 * start_sales THEN "uptrend"
    ELSE IF 10 * end_sales < 9 * start_sales THEN "downtrend"
    ELSE "stable"

\* lines 104-105: avg_spread < current_qty * 0.2
ConfidenceOf(qty, fd) ==
    LET spread == SumSeq([i \in DOMAIN fd |-> fd[i].yhat_upper - fd[i].yhat_lower])
    IN  IF 5 * spread < Len(fd) * YUnit * qty THEN "high" ELSE "low"

NotSuccess(status) ==
    [status |-> status, stock_out_date |-> NoDate, predicted_monthly_demand |-> 0,
     trend |-> "", confidence |-> ""]

\* lines 71-114 (forecast_data, a copy of the model's rows, is left out)
Analysis(qty, fd) ==
    [status |-> "success",
     stock_out_date |-> StockOutDate(qty, fd),
     predicted_monthly_demand |-> IntOf(PredictedDemand(fd)),
     trend |-> TrendOf(StartSales(fd), EndSales(fd)),
     confidence |-> ConfidenceOf(qty, fd)]

\* lines 54-118
generate_forecast(qty, h, model) ==
    LET df == preprocess_data(h)
    IN  IF ~df.ok THEN NotSuccess("insufficient_data")
        ELSE IF model.raises THEN NotSuccess("error")
        ELSE Analysis(qty, FutureData(model.fc, df.rows[Len(df.rows)].ds))

ForecastShapes ==
    [d1 : -MaxY..MaxY, head : -MaxY..MaxY, mid : -MaxY..MaxY, tail : -MaxY..MaxY,
     spread : {0, 1}]

NoForecast == [d1 |-> 0, head |-> 0, mid |-> 0, tail |-> 0, spread |-> 0]

----------------------------------------------------------------------------
(* The three specifications keep the variables of the other two still.       *)

NormIdle == history = <<>> /\ normOut = <<>>
AnaIdle  == current_qty = 0 /\ forecast = NoForecast /\ prediction = <<>>

----------------------------------------------------------------------------
(* SpecNormalize: a caller builds a raw history row by row and hands it to   *)
(* _preprocess_data.                                                         *)

AppendRow ==
    /\ normOut = <<>>
    /\ Len(history) < MaxRows
    /\ \E r \in RowOpts : history' = Append(history, r)
    /\ UNCHANGED <<normOut, anaVars, connVars, runVars>>

Preprocess ==
    /\ normOut = <<>>
    /\ normOut' = <<preprocess_data(history)>>
    /\ UNCHANGED <<history, anaVars, connVars, runVars>>

----------------------------------------------------------------------------
(* SpecAnalyze: the analysis of generate_forecast on a forecast of the model *)

FirstForecastDay == MinPoints

Analyze ==
    /\ prediction = <<>>
    /\ prediction' = <<Analysis(current_qty, FutureData(forecast, FirstForecastDay - 1))>>
    /\ UNCHANGED <<current_qty, forecast, normVars, connVars, runVars>>

----------------------------------------------------------------------------
(* The store: the products collection, one document per product id.         *)
(*   hasId        the fetched document carries '_id' (app.py line 43        *)
(*                subscripts it: the one statement of the product loop      *)
(*                that can raise outside generate_forecast's own try)       *)
(*   quantity, history   as stored                                          *)
(*   model        what the forecasting model does on this product's series  *)
(*   ai_forecast  <<>> or <<prediction>>;  last_analyzed  set or not        *)

Pids == 1..MaxProducts

Sale(day, q) == RawRow("date", "ok", Tick(day, 0), "sales", TRUE, q)

HistShort == <<Sale(0, 1), Sale(1, 2)>>
HistLong  == <<Sale(0, 1), Sale(MinPoints - 1, 2)>>

Raises  == [raises |-> TRUE, fc |-> NoForecast]
Gives(d1, head, mid, tail) ==
    [raises |-> FALSE,
     fc |-> [d1 |-> d1, head |-> head, mid |-> mid, tail |-> tail, spread |-> 1]]

Doc(hasId, quantity, h, model) ==
    [hasId |-> hasId, quantity |-> quantity, history |-> h, model |-> model,
     ai_forecast |-> <<>>, last_analyzed |-> FALSE]

\* the documents a store is drawn from
DocKinds ==
    { Doc(TRUE, 5, <<>>, Raises),                   \* no history: not eligible
      Doc(TRUE, 5, HistShort, Gives(1, 1, 1, 1)),   \* insufficient data
      Doc(TRUE, 5, HistLong, Raises),               \* the model fails
      Doc(TRUE, 5, HistLong, Gives(2, 2, 3, 4)),    \* uptrend, stock runs out
      Doc(TRUE, 9, HistLong, Gives(0, 0, 0, 1)),    \* uptrend, stock lasts
      Doc(TRUE, 9, HistLong, Gives(1, 1, 0, 0)),    \* downtrend, stock lasts
      Doc(FALSE, 5, HistLong, Gives(1, 1, 1, 1)) }  \* a document without '_id'

\* db_connector.py lines 63-65: the $match stage
Eligible(doc) == doc.history # <<>>

\* lines 67-75: the $project stage
Project(st, pid) ==
    [_id |-> pid, hasId |-> st[pid].hasId, quantity |-> st[pid].quantity,
     history |-> st[pid].history, model |-> st[pid].model]

\* line 76: the $limit stage
Limit(s, limit) == SubSeq(s, 1, Min2(limit, Len(s)))

\* lines 61-81: the aggregate, in the collection's natural order
Aggregate(st, limit) ==
    LET ids == SortedSeq({pid \in DOMAIN st : Eligible(st[pid])})
    IN  Limit([i \in DOMAIN ids |-> Project(st, ids[i])], limit)

\* line 79: whether self.db.products.aggregate raises: the store's choice on
\* a connected gateway, always (AttributeError on None) on an unconnected one
AggregateFaults(connected) == IF connected THEN BOOLEAN ELSE {TRUE}

\* lines 54-84: a raising aggregate is logged and an empty list returned
fetch_training_batch(st, limit, raised) ==
    IF raised THEN <<>> ELSE Aggregate(st, limit)

\* lines 94-104: building the operations subscripts item["_id"] and
\* item["prediction"], outside the try
Malformed(item) == ~item.wf
BuildRaises(ups) == \E i \in DOMAIN ups : Malformed(ups[i])

\* lines 95-104: the ids of the operations handed to bulk_write
Operations(ups) == {ups[i]._id : i \in DOMAIN ups}

\* lines 106-112: an unordered bulk write applies the operations that do not
\* fail, whichever they are; BulkWriteError and every other exception are
\* logged, not raised
WriteOutcomes(ops) == SUBSET ops

\* lines 106-112 on an unconnected gateway: self.db.products raises
\* AttributeError inside the try, which line 111 logs; nothing is written
UnconnectedWrite(ups) ==
    IF ups # <<>> /\ BuildRaises(ups)
    THEN {[raised |-> TRUE, submitted |-> {}, applied |-> {}]}
    ELSE {[raised |-> FALSE, submitted |-> {}, applied |-> {}]}

\* lines 86-112: how a call can end: raised to the caller or not, the ids of
\* the operations it handed to bulk_write and of the documents that updated
bulk_update_predictions(ups) ==
    IF ups = <<>> THEN {[raised |-> FALSE, submitted |-> {}, applied |-> {}]}
    ELSE IF BuildRaises(ups) THEN {[raised |-> TRUE, submitted |-> {}, applied |-> {}]}
    ELSE {[raised |-> FALSE, submitted |-> Operations(ups), applied |-> S] :
             S \in WriteOutcomes(Operations(ups))}

PredictionOf(ups, pid) ==
    LET i == CHOOSE j \in DOMAIN ups : ups[j]._id = pid IN ups[i].prediction

\* lines 98-102: $set ai_forecast and last_analyzed on the documents written
ApplyWrites(st, ups, applied) ==
    [pid \in DOMAIN st |->
        IF pid \in applied
        THEN [st[pid] EXCEPT !.ai_forecast = <<PredictionOf(ups, pid)>>,
                             !.last_analyzed = TRUE]
        ELSE st[pid]]

NoBulk == [called |-> FALSE, raised |-> FALSE, submitted |-> {}, applied |-> {}]
NoStats == [uptrend |-> 0, downtrend |-> 0, critical |-> 0]
NoResponse == [kind |-> "none", code |-> 0, processed |-> 0, updated |-> 0,
               insights |-> NoStats]

\* app.py line 36
NoDataResponse == [kind |-> "nodata", code |-> 200, processed |-> 0, updated |-> 0,
                   insights |-> NoStats]

\* app.py lines 75-77
FailureResponse == [kind |-> "failure", code |-> 500, processed |-> 0, updated |-> 0,
                    insights |-> NoStats]

\* app.py line 70: the "updated" field of the report
UpdatedCount(ups, b) == Len(ups)

\* app.py lines 67-73
SuccessResponse(prods, ups, st, b) ==
    [kind |-> "success", code |-> 200, processed |-> Len(prods),
     updated |-> UpdatedCount(ups, b), insights |-> st]

\* app.py lines 59-61
Tally(st, pred) ==
    [uptrend   |-> st.uptrend + (IF pred.trend = "uptrend" THEN 1 ELSE 0),
     downtrend |-> st.downtrend + (IF pred.trend = "downtrend" THEN 1 ELSE 0),
     critical  |-> st.critical + (IF pred.stock_out_date # NoDate THEN 1 ELSE 0)]

\* a bug: every prediction but "insufficient_data" is taken for a success
IsSuccessLoose(pred) == pred.status # "insufficient_data"

\* app.py line 51
IsSuccess(pred) == pred.status = "success"

\* a bug: the bulk write is called whatever the update list holds
ShouldPersistAlways(ups) == TRUE

\* app.py line 64: the test that guards the bulk write
ShouldPersist(ups) == ups # <<>>

\* a bug: the update list is overwritten, updates = [{...}]
CollectUpdateReplace(ups, p, pred) ==
    <<[_id |-> p._id, wf |-> TRUE, prediction |-> pred]>>

\* app.py lines 53-56: updates.append({"_id": pid, "prediction": prediction})
CollectUpdate(ups, p, pred) ==
    Append(ups, [_id |-> p._id, wf |-> TRUE, prediction |-> pred])

RECURSIVE LoopOver(_)
\* app.py lines 38-61: the whole product loop over items, each a fetched
\* product p with the prediction pred that generate_forecast gives for it;
\* aborted when a product raises at line 43
LoopOver(items) ==
    IF items = <<>> THEN [aborted |-> FALSE, updates |-> <<>>, stats |-> NoStats]
    ELSE LET before == LoopOver(SubSeq(items, 1, Len(items) - 1))
             it     == items[Len(items)]
         IN  IF before.aborted \/ ~it.p.hasId
             THEN [before EXCEPT !.aborted = TRUE]
             ELSE IF IsSuccess(it.pred)
                  THEN [aborted |-> FALSE,
                        updates |-> CollectUpdate(before.updates, it.p, it.pred),
                        stats   |-> Tally(before.stats, it.pred)]
                  ELSE before

\* app.py lines 64-77: what a run whose loop ended as `loop` hands to the bulk
\* write, and what it reports (a batch run's own updates never raise there)
HandedOver(loop) ==
    IF loop.aborted \/ ~ShouldPersist(loop.updates) THEN {}
    ELSE {<<loop.updates[j]._id, loop.updates[j].prediction>> :
             j \in DOMAIN loop.updates}

ReportOver(items, loop) ==
    IF loop.aborted THEN FailureResponse
    ELSE SuccessResponse(items, loop.updates, loop.stats, NoBulk)

\* app.py line 34: the limit handed to the gateway
BatchLimit(requested) == FetchLimit

RunIdle ==
    /\ reqLimit = 0 /\ pc = "idle" /\ products = <<>> /\ idx = 0
    /\ updates = <<>> /\ stats = NoStats /\ response = NoResponse
    /\ fetchFault = FALSE /\ bulkCalls = 0 /\ bulk = NoBulk

ConnIdle ==
    /\ instance = FALSE /\ dbConn = FALSE /\ connLog = <<>> /\ boot = "init"
    /\ obtained = FALSE

----------------------------------------------------------------------------
(* db_connector.py: the construction of the singleton at import (line 115)  *)

\* lines 20-25, 27-33: __new__ sets _instance, _initialize clears client and db
Construct ==
    /\ boot = "init"
    /\ instance' = TRUE
    /\ dbConn' = FALSE
    /\ connLog' = <<>>
    /\ boot' = "connecting"
    /\ UNCHANGED <<obtained, normVars, anaVars, runVars>>

\* line 47: the exceptions the retry loop catches
Retried(outcome) == outcome = "ConnectionFailure"

\* a bug: the loop bound off by one, range(retries + 1)
AttemptsLeftOffByOne(log) == Len(log) <= Retries

\* line 36: range(retries)
AttemptsLeft(log) == Len(log) < Retries

\* lines 36-52: one pass of the retry loop.  The attempt connects, fails with
\* ConnectionFailure / ServerSelectionTimeoutError (caught, slept on, and after
\* the last one DatabaseConnectionError is raised), or fails with any other
\* exception (OperationFailure, ConfigurationError, ...: not caught).
ConnectAttempt ==
    /\ boot = "connecting"
    /\ AttemptsLeft(connLog)
    /\ \E outcome \in {"ok", "ConnectionFailure", "OtherError"} :
          /\ connLog' = Append(connLog, outcome)
          /\ dbConn' = (outcome = "ok")
          /\ boot' = IF outcome = "ok" THEN "up"
                     ELSE IF ~Retried(outcome) THEN "uncaught"
                     ELSE IF AttemptsLeft(connLog') THEN "connecting"
                     ELSE "DatabaseConnectionError"
          /\ obtained' = (outcome = "ok")     \* lines 25, 115: db = DBConnector()
    /\ UNCHANGED <<instance, normVars, anaVars, runVars>>

\* lines 20-25: DBConnector() called again, by a caller that holds the class,
\* after a construction that raised: _instance was set at line 23, before
\* _initialize, so line 22 skips the initialization and line 25 returns the
\* instance as the failed construction left it
ConstructAgain ==
    /\ boot \in {"DatabaseConnectionError", "uncaught"}
    /\ instance
    /\ ~obtained
    /\ obtained' = TRUE
    /\ UNCHANGED <<instance, dbConn, connLog, boot, normVars, anaVars, runVars>>

----------------------------------------------------------------------------
(* app.py: run_batch_prediction, served by whoever obtained the gateway     *)

\* the batch sizes a caller asks for: none (0) or 1
BatchSizes == {0, 1}

\* line 23: a POST arrives, with the batch size its caller asks for
Request ==
    /\ obtained
    /\ pc = "idle"
    /\ \E n \in BatchSizes : reqLimit' = n
    /\ pc' = "fetch"
    /\ UNCHANGED <<store, products, idx, updates, stats, response, fetchFault,
                   bulkCalls, bulk, normVars, anaVars, connVars>>

\* lines 34-39
Fetch ==
    /\ pc = "fetch"
    /\ \E raised \in AggregateFaults(dbConn) :
          /\ fetchFault' = raised
          /\ products' = fetch_training_batch(store, BatchLimit(reqLimit), raised)
    /\ IF products' = <<>>
       THEN /\ response' = NoDataResponse
            /\ pc' = "done"
       ELSE /\ response' = response
            /\ pc' = "loop"
    /\ idx' = 0
    /\ updates' = <<>>
    /\ stats' = NoStats
    /\ UNCHANGED <<store, reqLimit, bulkCalls, bulk, normVars, anaVars, connVars>>

\* lines 42-61: one iteration of the product loop
Iterate ==
    /\ pc = "loop"
    /\ idx < Len(products)
    /\ LET p == products[idx + 1]
           pred == generate_forecast(p.quantity, p.history, p.model)
       IN  IF ~p.hasId
           THEN /\ response' = FailureResponse        \* KeyError, lines 75-77
                /\ pc' = "done"
                /\ UNCHANGED <<idx, updates, stats>>
           ELSE /\ idx' = idx + 1
                /\ IF IsSuccess(pred)
                   THEN /\ updates' = CollectUpdate(updates, p, pred)
                        /\ stats' = Tally(stats, pred)
                   ELSE UNCHANGED <<updates, stats>>
                /\ UNCHANGED <<response, pc>>
    /\ UNCHANGED <<store, reqLimit, products, fetchFault, bulkCalls, bulk,
                   normVars, anaVars, connVars>>

\* lines 64-77: the bulk write when there is something to write, then the
\* report; an exception out of the bulk write ends in the except clause
PersistAndReport ==
    /\ pc = "loop"
    /\ idx = Len(products)
    /\ IF ShouldPersist(updates)
       THEN \E out \in (IF dbConn THEN bulk_update_predictions(updates)
                        ELSE UnconnectedWrite(updates)) :
               /\ bulk' = [called |-> TRUE, raised |-> out.raised,
                            submitted |-> out.submitted, applied |-> out.applied]
               /\ store' = ApplyWrites(store, updates, out.applied)
               /\ bulkCalls' = bulkCalls + 1
       ELSE UNCHANGED <<bulk, store, bulkCalls>>
    /\ response' = IF bulk'.raised THEN FailureResponse
                   ELSE SuccessResponse(products, updates, stats, bulk')
    /\ pc' = "done"
    /\ UNCHANGED <<reqLimit, products, idx, updates, stats, fetchFault,
                   normVars, anaVars, connVars>>

----------------------------------------------------------------------------
(* db_connector.py: bulk_update_predictions called on the exported gateway   *)
(* by another caller than the batch run, with a list of its own making: the *)
(* first k documents of the store, at most one entry malformed.              *)

StubPrediction ==
    [status |-> "success", stock_out_date |-> NoDate, predicted_monthly_demand |-> 0,
     trend |-> "stable", confidence |-> "low"]

CallerLists ==
    {[i \in DOMAIN ids |-> [_id |-> ids[i], wf |-> (ids[i] # bad),
                            prediction |-> StubPrediction]] :
        ids \in {SortedSeq(1..k) : k \in 0..MaxProducts}, bad \in {0} \cup Pids}

DirectBulkWrite ==
    /\ obtained
    /\ pc = "idle"
    /\ \E ups \in CallerLists :
          /\ updates' = ups
          /\ \E out \in (IF dbConn THEN bulk_update_predictions(ups)
                         ELSE UnconnectedWrite(ups)) :
                /\ bulk' = [called |-> TRUE, raised |-> out.raised,
                            submitted |-> out.submitted, applied |-> out.applied]
                /\ store' = ApplyWrites(store, ups, out.applied)
    /\ pc' = "direct"
    /\ UNCHANGED <<reqLimit, products, idx, stats, response, fetchFault, bulkCalls,
                   normVars, anaVars, connVars>>

----------------------------------------------------------------------------
(* The specifications *)

InitNormalize ==
    /\ NormIdle /\ AnaIdle /\ ConnIdle /\ RunIdle
    /\ store = [pid \in Pids |-> Doc(TRUE, 0, <<>>, Raises)]

NextNormalize == AppendRow \/ Preprocess

SpecNormalize == InitNormalize /\ [][NextNormalize]_vars

InitAnalyze ==
    /\ NormIdle /\ ConnIdle /\ RunIdle
    /\ store = [pid \in Pids |-> Doc(TRUE, 0, <<>>, Raises)]
    /\ current_qty \in 0..MaxQty
    /\ forecast \in ForecastShapes
    /\ prediction = <<>>

NextAnalyze == Analyze

SpecAnalyze == InitAnalyze /\ [][NextAnalyze]_vars

Init ==
    /\ NormIdle /\ AnaIdle /\ ConnIdle /\ RunIdle
    /\ store \in [Pids -> DocKinds]

Next ==
    \/ Construct
    \/ ConnectAttempt
    \/ ConstructAgain
    \/ Request
    \/ Fetch
    \/ Iterate
    \/ PersistAndReport
    \/ DirectBulkWrite

Spec == Init /\ [][Next]_vars

----------------------------------------------------------------------------
(* Claims about the batch run (Spec) *)

\* what the analysis of the i-th fetched product returns, taken alone
OutcomeAt(i) ==
    generate_forecast(products[i].quantity, products[i].history, products[i].model)

\* the outcomes of all the fetched products, and the successful ones among them
Outcomes == [i \in DOMAIN products |-> OutcomeAt(i)]
SuccessesOf(out) == {i \in DOMAIN out : out[i].status = "success"}

\* every fetched product ends in insufficient data, model failure or success
EveryProductAnalysed == \A i \in DOMAIN products : products[i].hasId

\* C1: a batch run over a non-empty fetched list whose products each end in
\* insufficient data, model failure or success is never aborted; it ends in a
\* success report with processed = the number of fetched products, updated =
\* the number of products whose analysis succeeded, uptrend / downtrend
\* counting the successful products with that trend and critical those with a
\* stock_out_date; each successful product's update is the prediction its own
\* analysis gives, whatever the other products did.
C1_BatchReport ==
    (products # <<>> /\ EveryProductAnalysed) =>
        /\ response.kind # "failure"
        /\ pc = "done" =>
              LET out == Outcomes
                  ok  == SuccessesOf(out)
              IN  /\ Len(updates) = Cardinality(ok)
                  /\ \A i \in ok : \E j \in DOMAIN updates :
                        /\ updates[j]._id = products[i]._id
                        /\ updates[j].prediction = out[i]
                  /\ response.kind = "success"
                  /\ response.processed = Len(products)
                  /\ response.updated = Cardinality(ok)
                  /\ response.insights.uptrend =
                        Cardinality({i \in ok : out[i].trend = "uptrend"})
                  /\ response.insights.downtrend =
                        Cardinality({i \in ok : out[i].trend = "downtrend"})
                  /\ response.insights.critical =
                        Cardinality({i \in ok : out[i].stock_out_date # NoDate})

\* C1's case: three products, one insufficient, one failing in the model, one
\* succeeding, and the report says processed = 3, updated = 1
C1_Witness ==
    /\ pc = "done"
    /\ Len(products) = 3
    /\ \E i, j, k \in DOMAIN products :
          /\ OutcomeAt(i).status = "insufficient_data"
          /\ OutcomeAt(j).status = "error"
          /\ OutcomeAt(k).status = "success"
    /\ response.kind = "success"
    /\ response.processed = 3
    /\ response.updated = 1

\* the entries of the update list that are malformed, and those whose write
\* was handed to the store and did not apply
MalformedIds == {updates[i]._id : i \in {j \in DOMAIN updates : ~updates[j].wf}}
FailedIds == bulk.submitted \ bulk.applied

\* C2: a bulk persistence call with one entry malformed, or one whose write
\* fails, still writes every other update (ai_forecast and last_analyzed set),
\* does not raise to its caller, and the batch run that made the call still
\* returns a success report.
C2_OneBadUpdate ==
    (bulk.called /\ Cardinality(MalformedIds \cup FailedIds) = 1) =>
        /\ ~bulk.raised
        /\ \A i \in DOMAIN updates :
              updates[i]._id \notin (MalformedIds \cup FailedIds) =>
                 /\ store[updates[i]._id].ai_forecast = <<updates[i].prediction>>
                 /\ store[updates[i]._id].last_analyzed
        /\ (pc = "done" /\ bulkCalls = 1) => response.kind = "success"

\* C3: the updated count of a success report is the number of records the
\* run's bulk persistence actually updated.
C3_UpdatedIsWritten ==
    (pc = "done" /\ response.kind = "success") =>
        /\ response.updated = Cardinality(bulk.applied)
        /\ response.updated =
              Cardinality({pid \in Pids : store[pid].ai_forecast # <<>>})

\* C4: a fetch in which the store raised ends in a failure response, never in a
\* success or a "no data" report.
C4_FetchFaultSurfaces ==
    (pc = "done" /\ fetchFault) => response.kind = "failure"

----------------------------------------------------------------------------
(* Claims about the connection (Spec) *)

Failures(log) == {i \in DOMAIN log : log[i] # "ok"}

\* C5 as claimed: at most 3 connect attempts, none after the first success, a
\* retry after each failed attempt whatever made it fail, and after 3 failed
\* attempts DatabaseConnectionError and no usable gateway.
C5_RetryEveryFailure ==
    /\ Len(connLog) <= 3
    /\ \A i \in DOMAIN connLog : connLog[i] = "ok" => i = Len(connLog)
    /\ (connLog # <<>> /\ connLog[Len(connLog)] # "ok" /\ Len(connLog) < 3)
          => boot = "connecting"
    /\ (Len(connLog) = 3 /\ Failures(connLog) = DOMAIN connLog)
          => (boot = "DatabaseConnectionError" /\ ~dbConn)

\* C5 as amended: at most 3 connect attempts, none after the first success, a
\* retry after each attempt that fails with ConnectionFailure (or its subclass
\* ServerSelectionTimeoutError), DatabaseConnectionError and no usable gateway
\* after 3 of them; an attempt that fails with any other exception is the
\* last: the exception propagates at once and the gateway is not usable.
C5_RetryConnectionFailures ==
    /\ Len(connLog) <= 3
    /\ \A i \in DOMAIN connLog : connLog[i] = "ok" => i = Len(connLog)
    /\ \A i \in DOMAIN connLog : connLog[i] = "OtherError" => i = Len(connLog)
    /\ (connLog # <<>> /\ connLog[Len(connLog)] = "ConnectionFailure"
          /\ Len(connLog) < 3) => boot = "connecting"
    /\ (Len(connLog) = 3 /\ \A i \in DOMAIN connLog : connLog[i] = "ConnectionFailure")
          => (boot = "DatabaseConnectionError" /\ ~dbConn)
    /\ (connLog # <<>> /\ connLog[Len(connLog)] = "OtherError")
          => (boot = "uncaught" /\ ~dbConn)
    /\ dbConn <=> (connLog # <<>> /\ connLog[Len(connLog)] = "ok")
    /\ boot = "up" <=> dbConn

\* C5's case: three attempts, all failed connections, and the fatal error
C5_Witness ==
    /\ connLog = <<"ConnectionFailure", "ConnectionFailure", "ConnectionFailure">>
    /\ boot = "DatabaseConnectionError"

----------------------------------------------------------------------------
(* Claims about the analysis (SpecAnalyze) *)

Analysed == prediction # <<>>

AllZero == forecast.d1 = 0 /\ forecast.head = 0 /\ forecast.mid = 0 /\ forecast.tail = 0

\* C6 as claimed: whatever the current stock, a forecast of 30 zero point
\* estimates gives stock_out_date = null and predicted_monthly_demand = 0.
C6_ZeroForecastAnyStock ==
    (Analysed /\ AllZero) =>
        /\ prediction[1].stock_out_date = NoDate
        /\ prediction[1].predicted_monthly_demand = 0

\* C6 as amended: for every current stock above 0, a forecast of 30 zero point
\* estimates gives stock_out_date = null and predicted_monthly_demand = 0; with
\* no stock (current_qty = 0) the stock_out_date is the first forecast day and
\* the demand still 0.
C6_ZeroForecastWithStock ==
    (Analysed /\ AllZero) =>
        /\ prediction[1].predicted_monthly_demand = 0
        /\ current_qty > 0 => prediction[1].stock_out_date = NoDate
        /\ current_qty = 0 => prediction[1].stock_out_date = <<FirstForecastDay>>

\* C6's case: stock on hand, 30 zero estimates, analysed
C6_Witness ==
    /\ Analysed /\ AllZero /\ current_qty > 0
    /\ prediction[1].status = "success"
    /\ prediction[1].stock_out_date = NoDate

\* the sums of the first and of the last 5 point estimates, unclamped
FirstFive == forecast.d1 + (TrendWindow - 1) * forecast.head
LastFive == TrendWindow * forecast.tail

\* C7: when the mean point estimate of the last 5 days equals that of the first
\* 5 days the trend is stable; the trend is uptrend only when end > start * 1.1
\* and downtrend only when end < start * 0.9.
C7_TieIsStable ==
    Analysed =>
        /\ FirstFive = LastFive => prediction[1].trend = "stable"
        /\ prediction[1].trend = "uptrend" => 10 * LastFive > 11 * FirstFive
        /\ prediction[1].trend = "downtrend" => 10 * LastFive < 9 * FirstFive

----------------------------------------------------------------------------
(* Claims about the batch run, continued (Spec) *)

\* C8: in a batch run bulk persistence is invoked at most once, only after
\* every fetched product has been processed, exactly when the update list is
\* not empty, with one update per successfully analysed product; never when
\* nothing was fetched, when every product was excluded or when the run
\* aborted inside the product loop.
C8_PersistOnce ==
    /\ bulkCalls <= 1
    /\ bulkCalls = 1 =>
          LET ok == SuccessesOf(Outcomes)
          IN  /\ pc = "done"
              /\ idx = Len(products)
              /\ products # <<>>
              /\ ok # {}
              /\ updates # <<>>
              /\ Len(updates) = Cardinality(ok)
              /\ {updates[j]._id : j \in DOMAIN updates} = {products[i]._id : i \in ok}
              /\ bulk.called
              /\ bulk.submitted = {updates[j]._id : j \in DOMAIN updates}
    /\ (pc = "done" /\ response.kind = "success" /\ updates # <<>>) => bulkCalls = 1
    /\ response.kind \in {"nodata", "failure"} => (bulkCalls = 0 /\ ~bulk.called)

\* C8's case: three products fetched, two of them analysed with success, and
\* the one bulk call made after the loop
C8_Witness ==
    /\ pc = "done"
    /\ Len(products) = 3
    /\ Len(updates) = 2
    /\ bulkCalls = 1
    /\ bulk.submitted = {updates[1]._id, updates[2]._id}

\* C10: a batch run asked for batch size N processes at most N products.
C10_ProcessedWithinBatchSize ==
    (pc = "done" /\ response.kind = "success" /\ reqLimit > 0) =>
        response.processed <= reqLimit

----------------------------------------------------------------------------
(* Claims about normalization (SpecNormalize) *)

\* the rows of the raw history whose date parses, and what each contributes
Dated == {i \in DOMAIN history :
             history[i].dcol # "absent" /\ history[i].dkind = "ok"}
DayOf(i) == history[i].ts \div TicksPerDay
Contribution(i) ==
    IF history[i].ycol # "absent" /\ history[i].ynum THEN history[i].yv ELSE 0

RECURSIVE TotalOver(_)
TotalOver(S) ==
    IF S = {} THEN 0
    ELSE LET i == CHOOSE j \in S : TRUE IN Contribution(i) + TotalOver(S \ {i})

DayTotal(d) == TotalOver({i \in Dated : DayOf(i) = d})
ObservedDays == {DayOf(i) : i \in Dated}
SpanLength == IF ObservedDays = {} THEN 0
              ELSE SetMax(ObservedDays) - SetMin(ObservedDays) + 1

\* C9: normalization rejects, or returns one entry per calendar day from the
\* first to the last observed date, ascending without gaps, each day's total
\* the sum of the quantities observed that day (0 for a day without
\* observation or a quantity that is not a number); it rejects whenever that
\* series has fewer than 10 entries and returns none shorter than 10.
C9_DailySeries ==
    normOut # <<>> =>
        /\ normOut[1].ok =>
              /\ Len(normOut[1].rows) = SpanLength
              /\ Len(normOut[1].rows) >= 10
              /\ \A k \in DOMAIN normOut[1].rows :
                    /\ normOut[1].rows[k].ds = SetMin(ObservedDays) + k - 1
                    /\ normOut[1].rows[k].y = DayTotal(SetMin(ObservedDays) + k - 1)
        /\ SpanLength < 10 => ~normOut[1].ok

\* C9's case: two observations on the first day and one, not a number, on the
\* tenth day give a series of 10 entries, the first the sum of the two
C9_Witness ==
    /\ normOut # <<>>
    /\ normOut[1].ok
    /\ Len(normOut[1].rows) = 10
    /\ Cardinality({i \in Dated : DayOf(i) = SetMin(ObservedDays)}) = 2
    /\ normOut[1].rows[1].y = 3
    /\ \E i \in Dated : ~history[i].ynum
    /\ normOut[1].rows[10].y = 0

----------------------------------------------------------------------------
(* Claims about the depletion simulation (SpecAnalyze) *)

\* the demand of the first k forecast days, negative estimates counting 0
DemandThrough(k) ==
    SumSeq([i \in 1..k |->
               IF YhatAt(forecast, i) > 0 THEN YhatAt(forecast, i) ELSE 0])

\* the forecast days at which the stock, less the demand so far, is <= 0
DepletedDays == {k \in 1..Horizon : current_qty * YUnit - DemandThrough(k) <= 0}

\* C11: the depletion simulation starts from running_stock = current_qty and
\* subtracts max(0, point estimate) day by day over the 30 forecast points:
\* stock_out_date is the date of the first day at which running_stock <= 0 and
\* null exactly when there is no such day; a negative estimate never adds
\* stock; with current_qty = 0 and a positive day-1 estimate it is the first
\* forecast day.
C11_FirstDepletedDay ==
    Analysed =>
        /\ DepletedDays = {} <=> prediction[1].stock_out_date = NoDate
        /\ DepletedDays # {} =>
              prediction[1].stock_out_date =
                 <<FirstForecastDay + SetMin(DepletedDays) - 1>>
        /\ (current_qty = 0 /\ forecast.d1 > 0) =>
              prediction[1].stock_out_date = <<FirstForecastDay>>

\* C11's case: stock on hand, a negative estimate on the first day, and the
\* stock running out later in the horizon
C11_Witness ==
    /\ Analysed
    /\ current_qty > 0
    /\ forecast.d1 < 0
    /\ prediction[1].stock_out_date # NoDate
    /\ prediction[1].stock_out_date # <<FirstForecastDay>>
    /\ prediction[1].stock_out_date =
          <<FirstForecastDay + SetMin(DepletedDays) - 1>>

----------------------------------------------------------------------------
(* Claims about rows with an unparseable date (SpecNormalize) *)

\* the rows whose date is present and cannot be parsed
Unparseable == {i \in DOMAIN history :
                   history[i].dcol # "absent" /\ history[i].dkind = "bad"}

\* C12: a history with rows whose date cannot be parsed loses only those
\* rows: when the remaining rows span at least 10 days (and the history has
\* one date column and one quantity column), normalization returns the daily
\* series of the remaining rows instead of rejecting the history.
C12_DropsOnlyUnparseable ==
    (/\ normOut # <<>>
     /\ Unparseable # {}
     /\ Cardinality(ColumnsNamed(history, "ds")) = 1
     /\ Cardinality(ColumnsNamed(history, "y")) = 1
     /\ SpanLength >= 10)
    => /\ normOut[1].ok
       /\ Len(normOut[1].rows) = SpanLength
       /\ \A k \in DOMAIN normOut[1].rows :
             /\ normOut[1].rows[k].ds = SetMin(ObservedDays) + k - 1
             /\ normOut[1].rows[k].y = DayTotal(SetMin(ObservedDays) + k - 1)

----------------------------------------------------------------------------
(* Claims about the monthly demand (SpecAnalyze) *)

\* C13: predicted_monthly_demand is the sum over the 30 forecast days of
\* max(0, point estimate) rounded to the nearest integer, sums with a
\* fractional part of one half or more included.
C13_DemandRoundedToNearest ==
    Analysed =>
        prediction[1].predicted_monthly_demand =
            (2 * DemandThrough(Horizon) + YUnit) \div (2 * YUnit)

----------------------------------------------------------------------------
(* Claims about the order of processing (Spec) *)

\* the fetched products with their predictions, taken in the order f
ItemsIn(out, f) ==
    [i \in DOMAIN products |-> [p |-> products[f[i]], pred |-> out[f[i]]]]

\* what the finished run handed to the bulk write
RunHandedOver ==
    IF bulk.called
    THEN {<<updates[j]._id, updates[j].prediction>> : j \in DOMAIN updates}
    ELSE {}

\* the loop as the run left it: aborted at line 43, or its updates and stats
RunLoop ==
    [aborted |-> (pc = "done" /\ response.kind = "failure"),
     updates |-> updates, stats |-> stats]

\* the loop has ended (all products done, or aborted) and nothing came after
LoopJustEnded ==
    \/ pc = "loop" /\ idx = Len(products)
    \/ pc = "done" /\ response.kind = "failure"

\* C14: whatever the order in which the fetched products are processed, the
\* batch run gives the same report (processed, updated and the three stats
\* counters) and hands the same set of (product id, prediction) updates to
\* the bulk write: when the run's loop ends, the loop run over every
\* permutation of the fetched list ends in the same report and the same set
\* of updates, and these are what the finished run reports and hands over.
C14_OrderIndependent ==
    /\ (products # <<>> /\ LoopJustEnded) =>
          \A out \in {Outcomes} :
             \A f \in Permutations(DOMAIN products) :
                LET items == ItemsIn(out, f)
                    loop  == LoopOver(items)
                IN  /\ ReportOver(items, loop) = ReportOver(products, RunLoop)
                    /\ HandedOver(loop) = HandedOver(RunLoop)
    /\ (products # <<>> /\ pc = "done") =>
          /\ response = ReportOver(products, RunLoop)
          /\ RunHandedOver = HandedOver(RunLoop)

\* C14's case: three fetched products, two of them succeeding with different
\* trends and one not, so that the order decides which update comes first
C14_Witness ==
    /\ pc = "done"
    /\ Len(products) = 3
    /\ Len(updates) = 2
    /\ updates[1].prediction # updates[2].prediction
    /\ response.kind = "success"
    /\ response.insights.uptrend = 1
    /\ response.insights.downtrend = 1
    /\ RunHandedOver = HandedOver(LoopOver(ItemsIn(Outcomes, [i \in 1..3 |-> 4 - i])))

----------------------------------------------------------------------------
(* Claims about repeated construction (Spec) *)

\* C15: whatever DBConnector() calls were made, a failed construction
\* included, no caller obtains an instance whose db is None: a call after a
\* failed initialization fails again or returns a connected instance, and
\* neither the fetch nor the bulk write runs against an unconnected gateway.
C15_NoUnconnectedGateway ==
    /\ obtained => dbConn
    /\ pc # "idle" => dbConn

=============================================================================
